---- MODULE Spec2Model ----
(***************************************************************************)
(* Model of src/os/macosx/crashlog_osx.cpp: the OS X crash handler of      *)
(* OpenTTD.                                                                *)
(*                                                                         *)
(* Spec      the signal handler HandleCrash, installed by                  *)
(*           CrashLog::InitialiseCrashLog, as run by the threads of the    *)
(*           process on delivery of fatal signals; one step per library    *)
(*           or collaborator call of the handler.                          *)
(* LiveSpec  Spec with weak fairness of the handler steps (a thread inside *)
(*           the handler keeps running and every collaborator call         *)
(*           returns).                                                     *)
(* SpecWalk  the frame-pointer walk of CrashLogOSX::LogStacktrace over a   *)
(*           family of stack memory images, one step per loop iteration,   *)
(*           with the lines it prints and the report buffer it fills.      *)
(* LiveWalk  SpecWalk with weak fairness of the loop.                      *)
(*                                                                         *)
(* The build modelled is the LP64, non-PPC, non-i386 one (x86_64/arm64):   *)
(* the return address is frame[1], IS_ALIGNED tests the low four bits      *)
(* for 0.                                                                  *)
(***************************************************************************)
EXTENDS Integers, Sequences, FiniteSets, TLC

(***************************************************************************)
(* Bounds of the model.                                                    *)
(***************************************************************************)
\* Number of threads of the process; thread 1 is the main thread.
NThreads == 2
\* Cap on the number of entries into HandleCrash over the process lifetime.
MaxEntries == 2
\* Stack images of SpecWalk have their irregular frame among frames 0..MaxChain.
MaxChain == 66

(***************************************************************************)
(* Program constants.                                                      *)
(***************************************************************************)
MAX_STACK_FRAMES == 64

\* The signals we want our crash handler to handle.
_signals_to_handle == <<"SIGSEGV", "SIGABRT", "SIGFPE", "SIGBUS", "SIGILL", "SIGSYS">>

Signals == {_signals_to_handle[k] : k \in 1..Len(_signals_to_handle)}

Threads == 1..NThreads
MainThread == 1

\* nullptr
NULL == 0

VARIABLES
  disp,     \* disposition of each signal: "SIG_DFL" or "HandleCrash"
  initPos,  \* number of iterations InitialiseCrashLog has completed
  stack,    \* per living thread: its activations of HandleCrash, innermost last
  proc,     \* "running", "aborted" (abort() called) or "killed" (default action)
  entries,  \* number of entries into HandleCrash so far
  reports,  \* per thread: number of times it has entered MakeCrashLog
  walk      \* state of the stack walk of LogStacktrace (SpecWalk)

vars == <<disp, initPos, stack, proc, entries, reports, walk>>

(***************************************************************************)
(* Stack memory and the frame walk of CrashLogOSX::LogStacktrace.          *)
(*                                                                         *)
(* Memory is addressed in 8-byte words.  A stack image is a regular chain  *)
(* of frames at the 16-byte aligned addresses 16, 32, 48, ... (each links  *)
(* to the frame 16 bytes above and holds a non-null return address) with   *)
(* one irregular frame at address img.bad whose link and return address    *)
(* are img.badlink and img.badip.  The stack ends at StackTop: a read at   *)
(* or above it either faults or yields the word img.beyond.word.           *)
(* img.used is the number of characters the report buffer holds when       *)
(* LogStacktrace is called.                                                *)
(***************************************************************************)
FrameAddr(k) == 16 * (k + 1)

\* The first address above the stack.
StackTop == FrameAddr(MaxChain + 3)

\* The saved return address of a regular frame: some non-null code address.
RetAddr(fr) == 4096 + fr

\* The word stored at address a of stack image img.
Mem(img, a) ==
  IF a >= StackTop THEN img.beyond.word
  ELSE IF a % 16 = 0
    THEN IF a = img.bad THEN img.badlink ELSE a + 16
    ELSE IF a - 8 = img.bad THEN img.badip ELSE RetAddr(a - 8)

\* frame[k] for a void **frame
Deref(img, frame, k) == Mem(img, frame + 8 * k)

\* Reading through frame raises SIGSEGV: the pointer is outside the stack and
\* the page is not mapped.
Faults(img, frame) == frame >= StackTop /\ img.beyond.faults

IS_ALIGNED(addr) == addr % 16 = 0

LoopCond_OffByOne(w) == w.frame # NULL /\ w.i <= MAX_STACK_FRAMES

\* for (int i = 0; frame != nullptr && i < MAX_STACK_FRAMES; i++)
LoopCond(w) == w.frame # NULL /\ w.i < MAX_STACK_FRAMES

BrokenStack_AlignmentOnly(next, frame) == ~IS_ALIGNED(next)

BrokenStack_OrderOnly(next, frame) == next <= frame

BrokenStack_AllowsSelfLink(next, frame) == next < frame \/ ~IS_ALIGNED(next)

\* if (next <= frame || !IS_ALIGNED(next)) break;
BrokenStack(next, frame) == next <= frame \/ ~IS_ALIGNED(next)

Min(a, b) == IF a <= b THEN a ELSE b

Max(a, b) == IF a >= b THEN a ELSE b

(***************************************************************************)
(* The report buffer.  Offsets count from the start of the buffer; the     *)
(* text written so far ends at the cursor, where its terminating NUL is.   *)
(***************************************************************************)
\* char buffer[65536];
BufferSize == 65536

\* lastof(buffer)
Last == BufferSize - 1

\* seprintf(str, last, format, ...) for str at offset cur and a formatted
\* text of len characters: the number of characters it writes, followed by a
\* NUL; nothing is written behind last.
seprintf(cur, len) == IF Last - cur < 0 THEN 0 ELSE Min(Last - cur, len)

Advance_ByLength(cur, len) == cur + len

\* buffer += seprintf(buffer, last, ...);
Advance(cur, len) == cur + seprintf(cur, len)

\* The buffer b after seprintf has been handed a text of len characters at the
\* cursor: cur is the cursor, hi the highest offset written so far (that of
\* the NUL), full the number of characters handed to seprintf so far.
Write(b, len) ==
  [cur |-> Advance(b.cur, len),
   hi |-> IF b.cur <= Last THEN Max(b.hi, b.cur + seprintf(b.cur, len)) ELSE b.hi,
   full |-> b.full + len]

\* The walk w after appending a text of len characters to the buffer.
Put(w, len) == [w EXCEPT !.buf = Write(@, len)]

(***************************************************************************)
(* Symbol lookup and the text of a frame line.                             *)
(***************************************************************************)
\* A string is the sequence of its parts, "/" between them: "/usr/lib/dyld"
\* is <<"", "usr", "lib", "dyld">>, "main" is <<"main">>.  A null pointer to
\* a string is <<>>.
NoString == <<>>

AppPath == <<"", "Applications", "OpenTTD.app", "Contents", "MacOS", "openttd">>

LibPath == <<"", "usr", "lib", "libSystem.B.dylib">>

\* The answers of dladdr(ip, &dli) in the process: its return value and the
\* fields of dli it has filled in.  Code addresses are spread over all the
\* shapes of answer: no image at the address, an image without a symbol there,
\* symbols at, below and above the address, and answers lacking one field.
dladdr(ip) ==
  LET hit(f, s, a) == [valid |-> TRUE, dli_fname |-> f, dli_sname |-> s, dli_saddr |-> a]
      shape == (ip \div 16) % 8
  IN IF shape = 0 THEN [valid |-> FALSE, dli_fname |-> NoString,
                        dli_sname |-> NoString, dli_saddr |-> NULL]
     ELSE IF shape = 1 THEN hit(AppPath, <<"_ZN11CrashLogOSX12MakeCrashLogEv">>, ip - 8)
     ELSE IF shape = 2 THEN hit(<<"openttd">>, <<"main">>, ip)
     ELSE IF shape = 3 THEN hit(LibPath, NoString, NULL)
     ELSE IF shape = 4 THEN hit(NoString, <<"start">>, ip - 4)
     ELSE IF shape = 5 THEN hit(<<"", "usr", "lib", "dyld">>, <<"_dyld_start">>, ip + 24)
     ELSE IF shape = 6 THEN hit(LibPath, <<"_ZN8CrashLog12FillCrashLogEPcPKc">>, NULL)
     ELSE hit(AppPath, NoString, ip - 16)

\* abi::__cxa_demangle(name, nullptr, 0, &status): the demangled name, or
\* null when name is not a mangled C++ name.
__cxa_demangle(name) ==
  IF name = <<"_ZN11CrashLogOSX12MakeCrashLogEv">> THEN <<"CrashLogOSX::MakeCrashLog()">>
  ELSE IF name = <<"_ZN8CrashLog12FillCrashLogEPcPKc">>
    THEN <<"CrashLog::FillCrashLog(char*, char const*)">>
  ELSE NoString

\* const char *fname = "???"; if (dl_valid && dli.dli_fname) { ... strrchr ... }
\* The text after the last '/' of the image name.
ModuleName(dli) ==
  IF dli.valid /\ dli.dli_fname # NoString
    THEN <<dli.dli_fname[Len(dli.dli_fname)]>>
    ELSE <<"???">>

HasSymbol_NameOnly(dli) == dli.valid /\ dli.dli_sname # NoString

\* if (dl_valid && dli.dli_sname != nullptr && dli.dli_saddr != nullptr)
HasSymbol(dli) == dli.valid /\ dli.dli_sname # NoString /\ dli.dli_saddr # NULL

Offset_Magnitude(ip, saddr) == IF ip >= saddr THEN ip - saddr ELSE saddr - ip

\* long int offset = (intptr_t)ip - (intptr_t)dli.dli_saddr;  Both are
\* addresses inside a loaded image, below 2^47 on this build: the conversions
\* keep their values and the difference is in the range of long int.
Offset(ip, saddr) == ip - saddr

\* func_name != nullptr ? func_name : dli.dli_sname
SymbolName(dli) ==
  IF __cxa_demangle(dli.dli_sname) # NoString
    THEN __cxa_demangle(dli.dli_sname) ELSE dli.dli_sname

\* The frame line of iteration i for frame, whose return address is ip: the
\* index, the module name, the address and, when a symbol is known, its name
\* and the offset.
FrameLine(i, frame, ip) ==
  LET dli == dladdr(ip) IN
  [idx |-> i, frame |-> frame, fname |-> ModuleName(dli), ip |-> ip,
   sym |-> IF HasSymbol(dli) THEN <<SymbolName(dli)[1], Offset(ip, dli.dli_saddr)>>
                             ELSE <<>>]

RECURSIVE Digits(_, _)
\* The number of digits of n >= 0 in the given base.
Digits(n, base) == IF n < base THEN 1 ELSE 1 + Digits(n \div base, base)

\* The number of characters %ld prints for n.
SignedWidth(n) == IF n < 0 THEN 1 + Digits(-n, 10) ELSE Digits(n, 10)

\* The number of characters of " [%02d]" for index i.
IndexWidth(i) == 2 + Max(2, Digits(i, 10)) + 1

\* The number of characters of " %-20s 0x%016lx" for a line.
ModuleWidth(line) == 1 + Max(20, Len(line.fname[1])) + 1 + 2 + Max(16, Digits(line.ip, 16))

\* The number of characters of " (%s + %ld)" for a line, 0 without a symbol.
SymbolWidth(line) ==
  IF line.sym = <<>> THEN 0
  ELSE 2 + Len(line.sym[1]) + 3 + SignedWidth(line.sym[2]) + 1

\* The state of the walk at loop entry: "\nStacktrace:\n" is in the buffer,
\* frame = __builtin_frame_address(0), i = 0.
WalkStart(img) ==
  Put([img |-> img, frame |-> img.start, i |-> 0, out |-> <<>>, pc |-> "loop",
       reads |-> <<>>, exit |-> "",
       buf |-> [cur |-> img.used, hi |-> img.used, full |-> img.used]],
      Len("\nStacktrace:\n"))

\* return buffer + seprintf(buffer, last, "\n");  after the loop was left for
\* the given reason.
Finish(w, reason) == [Put(w, Len("\n")) EXCEPT !.pc = "done", !.exit = reason]

\* The rest of the loop body for the walk r that has read the non-null return
\* address of its frame: the frame line is appended and the link examined.
Emit(r, line) ==
  LET next == Deref(r.img, r.frame, 0)
      p == Put(Put(Put(Put(r, IndexWidth(r.i)), ModuleWidth(line)),
                   SymbolWidth(line)), Len("\n"))
      q == [p EXCEPT !.out = Append(@, line), !.reads = Append(@, r.frame)]
  IN IF BrokenStack(next, r.frame)
       THEN Finish(q, "broken stack")
       ELSE [q EXCEPT !.frame = next, !.i = @ + 1]

\* One iteration of the loop body: a frame line is appended for the current
\* frame unless its return address is null; the walk moves on to the linked
\* frame unless the link is broken.  The read of a frame above the stack may
\* fault.  (The line is the one element of a set so that it is computed once.)
LoopBody(w) ==
  LET ip == Deref(w.img, w.frame, 1)
      r == [w EXCEPT !.reads = Append(@, w.frame)]
  IN
  IF Faults(w.img, w.frame) THEN [r EXCEPT !.pc = "fault"]
  ELSE IF ip = NULL THEN Finish(r, "null return address")
  ELSE CHOOSE v \in {Emit(r, line) : line \in {FrameLine(w.i, w.frame, ip)}} : TRUE

\* One evaluation of the loop condition followed by the body or the exit.
LoopStep(w) ==
  IF LoopCond(w) THEN LoopBody(w) ELSE Finish(w, "loop condition")

RECURSIVE RunLoop(_)
RunLoop(w) == IF w.pc # "loop" THEN w ELSE RunLoop(LoopStep(w))

\* The frame lines LogStacktrace appends to the buffer for stack image img.
LogStacktrace(img) == RunLoop(WalkStart(img)).out

\* The links tried for the irregular frame: null, itself, a misaligned
\* address, the regular link, a frame further up, and the two frames below.
BadLinks(bad) ==
  {NULL, bad, bad + 8, bad + 16, bad + 32}
    \cup {a \in {bad - 16, bad - 32} : a >= FrameAddr(0)}

\* What a read above the stack does: it faults, or it yields a null or a
\* non-null word.
Beyond ==
  {[faults |-> TRUE, word |-> NULL], [faults |-> FALSE, word |-> NULL],
   [faults |-> FALSE, word |-> RetAddr(StackTop)]}

\* The numbers of characters the sections before the stack trace have left in
\* the buffer: none, some with room for part of the trace, and a full buffer.
Used == {0, Last - 1000, Last}

\* The stack images of the walk: for each irregular frame, the links within
\* the stack, and a link out of it, aligned and above the frame.
StackImages ==
  UNION {{[start |-> s, bad |-> FrameAddr(n), badlink |-> lb[1], badip |-> p,
           beyond |-> lb[2], used |-> u] :
            s \in {NULL, FrameAddr(0)},
            lb \in (BadLinks(FrameAddr(n)) \X {[faults |-> TRUE, word |-> NULL]})
                     \cup ({StackTop} \X Beyond),
            p \in {NULL, RetAddr(FrameAddr(n))},
            u \in Used} : n \in 0..MaxChain}

\* The stack images a handler activation of Spec walks: the frame of
\* LogStacktrace, which exists, and its caller's, where the chain ends.
HandlerImages ==
  {img \in StackImages :
     /\ img.start = FrameAddr(0)
     /\ img.bad = FrameAddr(1)
     /\ img.badlink = NULL
     /\ img.badip # NULL
     /\ img.used = 0}

\* The stack traces of those images.
HandlerTraces == {LogStacktrace(img) : img \in HandlerImages}

(***************************************************************************)
(* The handler.                                                            *)
(***************************************************************************)
\* Contents of a char array that has not been written yet.
Garbage == "<uninitialised>"

\* A new activation of HandleCrash.  The signal number is only printed into
\* the report (LogError), so the activation does not record it.
NewFrame ==
  [pc |-> "restore", i |-> 0, calls |-> <<>>,
   results |-> <<>>, ret |-> FALSE, buffer |-> <<>>,
   filename_log |-> Garbage, filename_save |-> Garbage,
   filename_screenshot |-> Garbage]

Top(t) == stack[t][Len(stack[t])]

SetTop(t, f) == [stack EXCEPT ![t][Len(stack[t])] = f]

\* The activation f after a call of fn with arguments arg.
Call(f, fn, arg) == [f EXCEPT !.calls = Append(@, [fn |-> fn, arg |-> arg])]

\* Thread t is executing HandleCrash at pc.
At(t, pc) == proc = "running" /\ stack[t] # <<>> /\ Top(t).pc = pc

\* The fatal signals that can be delivered.
FaultSignals == Signals

\* The signals whose disposition is d.
Disposed(d) == {sig \in Signals : disp[sig] = d}

Initialised == initPos = Len(_signals_to_handle)

\* CrashLog::InitialiseCrashLog, one iteration: signal(*i, HandleCrash).
\* It runs in the main thread, before any other thread exists.
InitialiseCrashLog ==
  /\ proc = "running"
  /\ stack[MainThread] = <<>>
  /\ initPos < Len(_signals_to_handle)
  /\ disp' = [disp EXCEPT ![_signals_to_handle[initPos + 1]] = "HandleCrash"]
  /\ initPos' = initPos + 1
  /\ UNCHANGED <<stack, proc, entries, reports, walk>>

\* Thread t can receive a signal: the main thread always, the others once
\* InitialiseCrashLog has returned.
Runs(t) == t = MainThread \/ Initialised

\* A fatal signal bound to the handler is delivered to thread t: HandleCrash
\* is entered on top of whatever the thread was executing, its own handler
\* included (implementations of signal() differ in whether the signal being
\* handled is held back until the handler returns, which it never does).
EnterHandleCrash(t) ==
  /\ proc = "running"
  /\ Runs(t)
  /\ FaultSignals \cap Disposed("HandleCrash") # {}
  /\ entries < MaxEntries
  /\ stack' = [stack EXCEPT ![t] = Append(@, NewFrame)]
  /\ entries' = entries + 1
  /\ UNCHANGED <<disp, initPos, proc, reports, walk>>

\* A fatal signal with the default disposition is delivered to a thread: the
\* process is terminated, and its threads with it.
DefaultAction ==
  /\ proc = "running"
  /\ {t \in Threads : Runs(t)} # {}
  /\ FaultSignals \cap Disposed("SIG_DFL") # {}
  /\ proc' = "killed"
  /\ stack' = [u \in Threads |-> <<>>]
  /\ UNCHANGED <<disp, initPos, entries, reports, walk>>

RestoreEnd_OneShort == Len(_signals_to_handle) - 1

\* endof(_signals_to_handle) of the restoration loop
RestoreEnd == Len(_signals_to_handle)

\* One iteration of the restoration loop, setting the disposition to d.
SetDisposition(t, d) ==
  /\ At(t, "restore")
  /\ LET f == Top(t)
         sig == _signals_to_handle[f.i + 1]
         g == Call([f EXCEPT !.i = @ + 1], "signal", <<sig, d>>)
     IN /\ disp' = [disp EXCEPT ![sig] = d]
        /\ stack' = SetTop(t, [g EXCEPT !.pc = IF g.i = RestoreEnd THEN "guard1" ELSE "restore"])
  /\ UNCHANGED <<initPos, proc, entries, reports, walk>>

RestoreSignal_Reinstalls(t) == SetDisposition(t, "HandleCrash")

\* for (...) signal(*i, SIG_DFL); one iteration.
RestoreSignal(t) == SetDisposition(t, "SIG_DFL")

\* abort(): the process is terminated, and its threads with it; the call does
\* not return.
Abort(t, pc) ==
  /\ At(t, pc)
  /\ stack' = [u \in Threads |-> <<>>]
  /\ proc' = "aborted"
  /\ UNCHANGED <<disp, initPos, entries, reports, walk>>

\* A return of HandleCrash to the interrupted code.
Return(t, pc) ==
  /\ At(t, pc)
  /\ stack' = [stack EXCEPT ![t] = SubSeq(@, 1, Len(@) - 1)]
  /\ UNCHANGED <<disp, initPos, proc, entries, reports, walk>>

\* A step of thread t that only changes its innermost activation, into g.
Step(t, g) ==
  /\ stack' = SetTop(t, g)
  /\ UNCHANGED <<disp, initPos, proc, entries, reports, walk>>

\* "true" or "false", as recorded for a call that returned r.
Returned(r) == IF r THEN <<"true">> ELSE <<"false">>

TestEmergency_ConsultsBoth(t) ==
  /\ At(t, "guard1")
  /\ \E r \in BOOLEAN :
       Step(t, [Call(Top(t), "GamelogTestEmergency", Returned(r)) EXCEPT !.pc = "guard2"])

\* if (GamelogTestEmergency()) {
TestEmergency(t) ==
  /\ At(t, "guard1")
  /\ \E r \in BOOLEAN :
       Step(t, [Call(Top(t), "GamelogTestEmergency", Returned(r)) EXCEPT
                  !.pc = IF r THEN "dialog1" ELSE "guard2"])

\* ShowMacDialog(..., "As you loaded an emergency savegame ...", "Quit");
EmergencyDialog(t) ==
  /\ At(t, "dialog1")
  /\ Step(t, [Call(Top(t), "ShowMacDialog", <<"emergency savegame">>) EXCEPT
                !.pc = "abort1"])

EmergencyAbort_Missing(t) ==
  /\ At(t, "abort1")
  /\ Step(t, [Top(t) EXCEPT !.pc = "guard2"])

\* abort(); of the emergency savegame branch
EmergencyAbort(t) == Abort(t, "abort1")

\* if (SaveloadCrashWithMissingNewGRFs()) {
TestMissingNewGRFs(t) ==
  /\ At(t, "guard2")
  /\ \E r \in BOOLEAN :
       Step(t, [Call(Top(t), "SaveloadCrashWithMissingNewGRFs", Returned(r)) EXCEPT
                  !.pc = IF r THEN "dialog2" ELSE "construct"])

\* ShowMacDialog(..., "As you loaded an savegame for which you do not have the
\* required NewGRFs ...", "Quit");
MissingNewGRFsDialog(t) ==
  /\ At(t, "dialog2")
  /\ Step(t, [Call(Top(t), "ShowMacDialog", <<"missing NewGRFs">>) EXCEPT
                !.pc = "abort2"])

MissingNewGRFsAbort_Returns(t) == Return(t, "abort2")

\* abort(); of the missing NewGRFs branch
MissingNewGRFsAbort(t) == Abort(t, "abort2")

\* CrashLogOSX log(signum); log.MakeCrashLog();  The constructor empties the
\* three file names and MakeCrashLog is entered.
ConstructCrashLog(t) ==
  /\ At(t, "construct")
  /\ stack' = SetTop(t, [Call(Top(t), "MakeCrashLog", <<>>) EXCEPT
                           !.filename_log = "", !.filename_save = "",
                           !.filename_screenshot = "", !.pc = "fill"])
  /\ reports' = [reports EXCEPT ![t] = @ + 1]
  /\ UNCHANGED <<disp, initPos, proc, entries, walk>>

\* char buffer[65536]; bool ret = true; this->FillCrashLog(buffer, lastof(buffer));
\* FillCrashLog has LogStacktrace walk the stack of the thread.
FillCrashLog(t) ==
  /\ At(t, "fill")
  /\ \E trace \in HandlerTraces :
       Step(t, [Call(Top(t), "FillCrashLog", <<>>) EXCEPT
                  !.ret = TRUE, !.buffer = trace, !.pc = "wlog"])

\* What an artifact writer leaves in its file name buffer: the path of the
\* artifact when it succeeds, that path or the old contents when it fails.
Written(ok, old, path) == IF ok THEN {path} ELSE {old, path}

\* The call of artifact writer fn, which returns ok and leaves filled in
\* field; the call is recorded with the path of the artifact it has written.
Attempt(f, fn, field, ok, filled) ==
  [Call(f, fn, IF ok THEN <<filled>> ELSE <<>>) EXCEPT
     ![field] = filled, !.results = Append(@, ok)]

Failed_KeepsPath(f, field) == [f EXCEPT !.ret = FALSE]

Failed_KeepsRet(f, field) == [f EXCEPT ![field] = ""]

\* filename[0] = '\0'; ret = false;
Failed(f, field) == [f EXCEPT ![field] = "", !.ret = FALSE]

WriteCrashLog_ReturnsOnFailure(t) ==
  /\ At(t, "wlog")
  /\ \E ok \in BOOLEAN : \E filled \in Written(ok, Top(t).filename_log, "crash.log") :
       LET g == Attempt(Top(t), "WriteCrashLog", "filename_log", ok, filled)
       IN Step(t, IF ok THEN [g EXCEPT !.pc = "wsave"]
                        ELSE [Failed(g, "filename_log") EXCEPT !.buffer = <<>>, !.pc = "gui"])

\* if (!this->WriteCrashLog(buffer, filename_log, lastof(filename_log))) { ... }
WriteCrashLog(t) ==
  /\ At(t, "wlog")
  /\ \E ok \in BOOLEAN : \E filled \in Written(ok, Top(t).filename_log, "crash.log") :
       LET g == Attempt(Top(t), "WriteCrashLog", "filename_log", ok, filled)
       IN Step(t, [(IF ok THEN g ELSE Failed(g, "filename_log")) EXCEPT !.pc = "wsave"])

\* if (!this->WriteSavegame(filename_save, lastof(filename_save))) { ... }
WriteSavegame(t) ==
  /\ At(t, "wsave")
  /\ \E ok \in BOOLEAN : \E filled \in Written(ok, Top(t).filename_save, "crash.sav") :
       LET g == Attempt(Top(t), "WriteSavegame", "filename_save", ok, filled)
       IN Step(t, [(IF ok THEN g ELSE Failed(g, "filename_save")) EXCEPT !.pc = "wshot"])

\* if (!this->WriteScreenshot(filename_screenshot, lastof(filename_screenshot))) { ... }
\* return ret;  The buffer goes out of scope; HandleCrash ignores the value
\* returned, which the activation keeps in ret.
WriteScreenshot(t) ==
  /\ At(t, "wshot")
  /\ \E ok \in BOOLEAN : \E filled \in Written(ok, Top(t).filename_screenshot, "crash.png") :
       LET g == Attempt(Top(t), "WriteScreenshot", "filename_screenshot", ok, filled)
       IN Step(t, [(IF ok THEN g ELSE Failed(g, "filename_screenshot")) EXCEPT
                     !.buffer = <<>>, !.pc = "gui"])

\* if (VideoDriver::GetInstance() == nullptr || VideoDriver::GetInstance()->HasGUI())
\* The call is recorded with the value of the condition.
TestGUI(t) ==
  /\ At(t, "gui")
  /\ \E driver \in {"no video driver", "driver with GUI", "driver without GUI"} :
       LET show == driver = "no video driver" \/ driver = "driver with GUI" IN
       Step(t, [Call(Top(t), "VideoDriver::GetInstance", Returned(show)) EXCEPT
                  !.pc = IF show THEN "dialog3" ELSE "cleanup"])

DisplayCrashDialog_LogOnly(t) ==
  /\ At(t, "dialog3")
  /\ LET f == Top(t) IN
     Step(t, [Call(f, "ShowMacDialog", <<"Generated file(s):", f.filename_log, "", "">>)
                EXCEPT !.pc = "cleanup"])

\* log.DisplayCrashDialog(): ShowMacDialog with the three file names.
DisplayCrashDialog(t) ==
  /\ At(t, "dialog3")
  /\ LET f == Top(t) IN
     Step(t, [Call(f, "ShowMacDialog",
                   <<"Generated file(s):", f.filename_log, f.filename_save,
                     f.filename_screenshot>>) EXCEPT !.pc = "cleanup"])

AfterCrashLogCleanup_Skipped(t) ==
  /\ At(t, "cleanup")
  /\ Step(t, [Top(t) EXCEPT !.pc = "abort3"])

\* CrashLog::AfterCrashLogCleanup();
AfterCrashLogCleanup(t) ==
  /\ At(t, "cleanup")
  /\ Step(t, [Call(Top(t), "AfterCrashLogCleanup", <<>>) EXCEPT !.pc = "abort3"])

FinalAbort_Returns(t) == Return(t, "abort3")

\* abort(); at the end of HandleCrash
FinalAbort(t) == Abort(t, "abort3")

\* A step of HandleCrash in thread t.
HandleCrash(t) ==
  \/ RestoreSignal(t)
  \/ TestEmergency(t)
  \/ EmergencyDialog(t)
  \/ EmergencyAbort(t)
  \/ TestMissingNewGRFs(t)
  \/ MissingNewGRFsDialog(t)
  \/ MissingNewGRFsAbort(t)
  \/ ConstructCrashLog(t)
  \/ FillCrashLog(t)
  \/ WriteCrashLog(t)
  \/ WriteSavegame(t)
  \/ WriteScreenshot(t)
  \/ TestGUI(t)
  \/ DisplayCrashDialog(t)
  \/ AfterCrashLogCleanup(t)
  \/ FinalAbort(t)

Init ==
  /\ disp = [s \in Signals |-> "SIG_DFL"]
  /\ initPos = 0
  /\ stack = [t \in Threads |-> <<>>]
  /\ proc = "running"
  /\ entries = 0
  /\ reports = [t \in Threads |-> 0]
  /\ walk = [pc |-> "idle"]

Next ==
  \/ InitialiseCrashLog
  \/ \E t \in Threads : EnterHandleCrash(t)
  \/ DefaultAction
  \/ \E t \in Threads : HandleCrash(t)

Spec == Init /\ [][Next]_vars

\* Some thread inside the handler keeps running and every call it makes
\* returns.
LiveSpec == Spec /\ WF_vars(\E t \in Threads : HandleCrash(t))

(***************************************************************************)
(* The stack walk on its own, over every stack image.                      *)
(***************************************************************************)
WalkInit ==
  /\ disp = [s \in Signals |-> "SIG_DFL"]
  /\ initPos = 0
  /\ stack = [t \in Threads |-> <<>>]
  /\ proc = "running"
  /\ entries = 0
  /\ reports = [t \in Threads |-> 0]
  /\ walk \in {WalkStart(img) : img \in StackImages}

\* The loop condition holds and the body runs.
WalkIterate ==
  /\ walk.pc = "loop"
  /\ LoopCond(walk)
  /\ walk' = LoopBody(walk)
  /\ UNCHANGED <<disp, initPos, stack, proc, entries, reports>>

\* The loop condition fails.
WalkExit ==
  /\ walk.pc = "loop"
  /\ ~LoopCond(walk)
  /\ walk' = Finish(walk, "loop condition")
  /\ UNCHANGED <<disp, initPos, stack, proc, entries, reports>>

WalkNext == WalkIterate \/ WalkExit

SpecWalk == WalkInit /\ [][WalkNext]_vars

LiveWalk == SpecWalk /\ WF_vars(WalkNext)

(***************************************************************************)
(* Properties.                                                             *)
(***************************************************************************)
\* The activations of HandleCrash of the living threads.
Activations == UNION {{stack[t][k] : k \in 1..Len(stack[t])} : t \in Threads}

\* The names of the calls activation f has made, in order.
CallNames(f) == [k \in 1..Len(f.calls) |-> f.calls[k].fn]

\* The number of calls of fn activation f has made.
CallCount(f, fn) == Cardinality({k \in 1..Len(f.calls) : f.calls[k].fn = fn})

\* The signals activation f has reset to the default disposition by its first
\* n calls.
RestoredBy(f, n) ==
  {f.calls[j].arg[1] : j \in {j \in 1..n : /\ f.calls[j].fn = "signal"
                                          /\ f.calls[j].arg[2] = "SIG_DFL"}}

SixSignals == {"SIGSEGV", "SIGABRT", "SIGFPE", "SIGBUS", "SIGILL", "SIGSYS"}

\* C1: in every activation of HandleCrash, every call other than the signal()
\* calls of the restoration loop (guard predicate, report composition,
\* artifact writer, dialog, cleanup, abort) comes after signal(s, SIG_DFL)
\* for each of the six signals, and from the end of the loop on all six
\* signals have the default disposition.
C1_RestoredBeforeAnyOtherStep ==
  \A f \in Activations :
    /\ \A k \in 1..Len(f.calls) :
         f.calls[k].fn # "signal" => RestoredBy(f, k - 1) = SixSignals
    /\ f.pc # "restore" =>
         /\ RestoredBy(f, Len(f.calls)) = SixSignals
         /\ \A sig \in SixSignals : disp[sig] = "SIG_DFL"

\* An activation has consulted the first guard predicate.
C1_Witness ==
  \E f \in Activations : CallCount(f, "GamelogTestEmergency") = 1

\* Some activation of HandleCrash has completed its restoration loop.
RestorationDone == \E f \in Activations : f.pc # "restore"

\* The signals InitialiseCrashLog has bound to the handler so far.
Installed == {_signals_to_handle[k] : k \in 1..initPos}

\* C2: once an activation of HandleCrash has completed its restoration loop,
\* every signal InitialiseCrashLog had bound has the default disposition (the
\* signals the loop restored include the installed ones, and are exactly
\* those once InitialiseCrashLog has returned), so that a further fault
\* terminates the process: no step enters HandleCrash again, no step binds a
\* signal again, and a terminated process takes no step at all.
C2_NoReentryAfterRestoration ==
  /\ [](RestorationDone =>
          /\ \A sig \in Installed : disp[sig] = "SIG_DFL"
          /\ \A f \in Activations :
               f.pc # "restore" =>
                 /\ Installed \subseteq RestoredBy(f, Len(f.calls))
                 /\ Initialised => RestoredBy(f, Len(f.calls)) = Installed)
  /\ [][RestorationDone =>
          /\ entries' = entries
          /\ \A sig \in Installed : disp'[sig] = "SIG_DFL"]_vars
  /\ [][proc = "running"]_vars

\* The loop has completed, all six signals were installed, and a further
\* fault has terminated the process.
C2_Witness == Initialised /\ entries = 1 /\ proc = "killed" /\ reports[MainThread] = 1

\* C3, as claimed: MakeCrashLog is started at most once in the process.
C3_AtMostOneReportPerProcess ==
  Cardinality({tn \in Threads \X (1..MaxEntries) : tn[2] <= reports[tn[1]]}) <= 1

\* C3, amended: a thread starts MakeCrashLog at most once, whatever faults
\* reach it during restoration or report generation.
C3_AtMostOneReportPerThread == \A t \in Threads : reports[t] <= 1

\* A fault during the restoration loop has nested a second activation in a
\* thread, and that activation has started MakeCrashLog.
C3_Witness ==
  \E t \in Threads :
    /\ Len(stack[t]) = 2
    /\ stack[t][1].pc = "restore"
    /\ CallCount(stack[t][2], "MakeCrashLog") = 1

\* A guard predicate has reported an unsafe state to activation f.
Skipped(f) ==
  \E k \in 1..Len(f.calls) :
    /\ f.calls[k].fn \in {"GamelogTestEmergency", "SaveloadCrashWithMissingNewGRFs"}
    /\ f.calls[k].arg = <<"true">>

SkipExplanations == {<<"emergency savegame">>, <<"missing NewGRFs">>}

\* C4: an activation to which a guard predicate has reported an unsafe state
\* makes no call of MakeCrashLog, FillCrashLog or an artifact writer, no
\* cleanup call, and one call of ShowMacDialog, with the skip explanation,
\* after which all it does is abort.
C4_SkipPath ==
  /\ [](\A f \in Activations :
          Skipped(f) =>
            /\ \A k \in 1..Len(f.calls) :
                 f.calls[k].fn \notin {"MakeCrashLog", "FillCrashLog", "WriteCrashLog",
                                       "WriteSavegame", "WriteScreenshot"}
            /\ \A k \in 1..Len(f.calls) :
                 f.calls[k].fn = "ShowMacDialog" => f.calls[k].arg \in SkipExplanations
            /\ CallCount(f, "ShowMacDialog") = (IF f.pc \in {"dialog1", "dialog2"} THEN 0 ELSE 1)
            /\ f.pc \in {"dialog1", "abort1", "dialog2", "abort2"})
  /\ [][\A t \in Threads :
          (/\ stack[t] # <<>>
           /\ Top(t).pc \in {"abort1", "abort2"}
           /\ stack'[t] # stack[t]) => proc' # "running"]_vars

\* An activation on the skip path has shown its dialog and is about to abort.
C4_Witness ==
  \E f \in Activations :
    Skipped(f) /\ f.pc = "abort2" /\ CallCount(f, "ShowMacDialog") = 1

\* C5: an activation of HandleCrash never returns (a thread's activations only
\* go away with the process), and whenever a thread is in HandleCrash the
\* process ends up terminated.
C5_EndsInTermination ==
  /\ [][\A t \in Threads : proc' = "running" => Len(stack'[t]) >= Len(stack[t])]_vars
  /\ []((\E t \in Threads : stack[t] # <<>>) => <>(proc # "running"))

\* The process was terminated by the abort() of a handler.
C5_Witness == proc = "aborted" /\ entries > 0

ArtifactWriters == {"WriteCrashLog", "WriteSavegame", "WriteScreenshot"}

IsArtifactWrite(c) == c.fn \in ArtifactWriters

\* The artifact writers activation f has called, in order.
WritesOf(f) == CallNames([f EXCEPT !.calls = SelectSeq(@, IsArtifactWrite)])

\* Activation f has returned from MakeCrashLog.
AfterWrites(f) == f.pc \in {"gui", "dialog3", "cleanup", "abort3"}

\* C6: by the time MakeCrashLog returns it has called WriteCrashLog,
\* WriteSavegame and WriteScreenshot once each, in that order, whatever each
\* of them returned; before that, its writer calls are a prefix of these.
C6_AllThreeAttempted ==
  \A f \in Activations :
    LET all == <<"WriteCrashLog", "WriteSavegame", "WriteScreenshot">> IN
    /\ Len(WritesOf(f)) <= 3
    /\ WritesOf(f) = SubSeq(all, 1, Len(WritesOf(f)))
    /\ Len(f.results) = Len(WritesOf(f))
    /\ AfterWrites(f) => WritesOf(f) = all

\* MakeCrashLog has returned after all three writers failed.
C6_Witness ==
  \E f \in Activations : f.pc = "gui" /\ f.results = <<FALSE, FALSE, FALSE>>

\* C7: the value MakeCrashLog returns is true exactly when all three artifact
\* writers returned true, and an activation whose MakeCrashLog returned false
\* still reaches the final abort() through the GUI test and the cleanup call.
C7_ResultIffAllSucceeded ==
  \A f \in Activations :
    /\ f.pc \in {"wsave", "wshot"} \/ AfterWrites(f) =>
         f.ret = (\A k \in 1..Len(f.results) : f.results[k])
    /\ AfterWrites(f) => Len(f.results) = 3
    /\ f.pc = "abort3" =>
         /\ CallCount(f, "VideoDriver::GetInstance") = 1
         /\ CallCount(f, "AfterCrashLogCleanup") = 1

\* An activation whose savegame could not be written has gone on to the final
\* abort().
C7_Witness ==
  \E f \in Activations :
    f.pc = "abort3" /\ f.results = <<TRUE, FALSE, TRUE>> /\ ~f.ret

\* The number of empty paths among the three file names of activation f.
EmptyPaths(f) ==
  Cardinality({n \in {"filename_log", "filename_save", "filename_screenshot"} : f[n] = ""})

\* The path the k-th artifact writer called by activation f reported, "" if
\* it failed.
PathWritten(f, k) ==
  LET c == SelectSeq(f.calls, IsArtifactWrite)[k]
  IN IF f.results[k] THEN c.arg[1] ELSE ""

\* C8: after the artifact writes, each file name is empty if its writer
\* failed and is the non-empty path its writer filled in if it succeeded;
\* with exactly one failure there is one empty path, two non-empty ones and
\* the result of MakeCrashLog is false.
C8_PathsMatchOutcomes ==
  \A f \in Activations :
    AfterWrites(f) =>
      /\ f.filename_log = PathWritten(f, 1)
      /\ f.filename_save = PathWritten(f, 2)
      /\ f.filename_screenshot = PathWritten(f, 3)
      /\ \A k \in 1..3 : f.results[k] <=> PathWritten(f, k) # ""
      /\ Cardinality({k \in 1..3 : ~f.results[k]}) = 1 =>
           EmptyPaths(f) = 1 /\ ~f.ret

\* Only the screenshot failed: two paths are set, one is empty.
C8_Witness ==
  \E f \in Activations :
    /\ f.pc = "gui"
    /\ f.results = <<TRUE, TRUE, FALSE>>
    /\ f.filename_log # "" /\ f.filename_save # "" /\ f.filename_screenshot = ""

\* C9: the walk emits at most 64 frame lines, numbered consecutively from 0,
\* and terminates: it returns, or a read outside the stack faults.
C9_WalkBounded ==
  /\ [](/\ Len(walk.out) <= 64
        /\ \A k \in 1..Len(walk.out) : walk.out[k].idx = k - 1)
  /\ <>(walk.pc \in {"done", "fault"})

\* A chain longer than the limit has been walked: 64 lines, the walk is over.
C9_Witness ==
  /\ walk.pc = "done"
  /\ Len(walk.out) = 64
  /\ walk.img.bad > walk.frame

\* The index of the frame at address a.
FrameIndex(a) == (a \div 16) - 1

\* The irregular frame of img is frame N >= 2, below the depth limit, and its
\* link points back to frame N-2; the walk starts at frame 0.
CyclicImage(img) ==
  /\ img.start = FrameAddr(0)
  /\ FrameIndex(img.bad) >= 2
  /\ FrameIndex(img.bad) < MAX_STACK_FRAMES
  /\ img.badlink = img.bad - 32

\* C10, as claimed: the walk of such a chain ends with frame N-1 as its last
\* line.
C10_LastLineIsFrameBeforeCycle ==
  (CyclicImage(walk.img) /\ walk.pc = "done") =>
    walk.out[Len(walk.out)].frame = walk.img.bad - 16

\* C10, amended: the walk of such a chain visits no frame twice and
\* terminates; its last line is frame N itself, with index N (the frame is
\* printed before its link is examined), unless the return address saved in
\* frame N is null, when it is frame N-1.
C10_WalkStopsAtCycle ==
  /\ [](CyclicImage(walk.img) =>
          /\ \A j, k \in 1..Len(walk.out) :
               walk.out[j].frame = walk.out[k].frame => j = k
          /\ walk.pc = "done" =>
               LET last == walk.out[Len(walk.out)]
                   n == FrameIndex(walk.img.bad)
               IN IF walk.img.badip # NULL
                    THEN last.frame = walk.img.bad /\ last.idx = n /\ Len(walk.out) = n + 1
                    ELSE last.frame = walk.img.bad - 16 /\ last.idx = n - 1)
  /\ (CyclicImage(walk.img) => <>(walk.pc = "done"))

\* The walk of a chain whose frame 5 links back to frame 3 is over.
C10_Witness ==
  /\ CyclicImage(walk.img)
  /\ walk.img.bad = FrameAddr(5)
  /\ walk.img.badip # NULL
  /\ walk.pc = "done"
  /\ Len(walk.out) = 6

\* The link saved in the frame that the k-th read of the walk went through.
LinkRead(k) == Deref(walk.img, walk.reads[k], 0)

\* C11: each read of the walk goes through the frame pointer of the read
\* before it or through the link saved in that frame, which is then strictly
\* greater and passes IS_ALIGNED; once the walk has read through a frame
\* whose link is not strictly greater or not aligned, it reads through no
\* other pointer.
C11_DerefIncreasingAligned ==
  /\ \A k \in 2..Len(walk.reads) :
       walk.reads[k] # walk.reads[k - 1] =>
         /\ walk.reads[k] = LinkRead(k - 1)
         /\ walk.reads[k] > walk.reads[k - 1]
         /\ walk.reads[k] % 16 = 0
  /\ \A k \in 1..Len(walk.reads) :
       (LinkRead(k) <= walk.reads[k] \/ LinkRead(k) % 16 # 0) =>
         \A j \in k..Len(walk.reads) : walk.reads[j] = walk.reads[k]

\* The walk has followed two links and stopped at a misaligned third one.
C11_Witness ==
  /\ walk.pc = "done"
  /\ walk.i = 2
  /\ Len(walk.reads) = 6
  /\ Deref(walk.img, walk.frame, 0) = walk.frame + 8

\* Pointer p lies in the stack.
InStack(p) == FrameAddr(0) <= p /\ p < StackTop

\* C12, as claimed: every pointer the walk reads through, the starting frame
\* pointer included, lies within the stack, is aligned, and was tested for
\* that (as the link of a frame read before) before the read.
C12_EveryDerefValidated ==
  \A k \in 1..Len(walk.reads) :
    /\ InStack(walk.reads[k])
    /\ walk.reads[k] % 16 = 0
    /\ \E j \in 1..(k - 1) :
         \/ walk.reads[j] = walk.reads[k]
         \/ LinkRead(j) = walk.reads[k] /\ ~BrokenStack(walk.reads[k], walk.reads[j])

\* C13: whatever the buffer held before and however much is appended, the
\* cursor stays within the buffer and nothing is written behind its last
\* byte; the text in the buffer is the first characters of everything that
\* was appended, all of it or, when that is more than fits, as much as leaves
\* the last byte of the buffer to the terminating NUL; and the walk goes on
\* to its end as it would have: the only failure is a fault of a read.
C13_TruncatedToCapacity ==
  /\ 0 <= walk.buf.cur /\ walk.buf.cur <= 65535
  /\ walk.buf.hi = walk.buf.cur
  /\ walk.buf.cur = (IF walk.buf.full <= 65535 THEN walk.buf.full ELSE 65535)
  /\ walk.pc = "fault" => walk.frame >= StackTop
  /\ walk.pc = "done" =>
       \/ walk.exit = "loop condition" /\ (walk.frame = NULL \/ walk.i = 64)
       \/ walk.exit = "null return address" /\ Deref(walk.img, walk.frame, 1) = NULL
       \/ walk.exit = "broken stack" /\ BrokenStack(Deref(walk.img, walk.frame, 0), walk.frame)

\* A walk that began with room for part of the trace has filled the buffer
\* and gone on to its 64th line.
C13_Witness ==
  /\ walk.pc = "done"
  /\ walk.img.used = 65535 - 1000
  /\ walk.buf.full > 65536
  /\ walk.buf.cur = 65535
  /\ Len(walk.out) = 64

\* The lines of the trace so far.
Lines == {walk.out[k] : k \in 1..Len(walk.out)}

\* C14: the offset printed in a frame line is the return address minus the
\* start address of the symbol dladdr has found for it, negative when the
\* symbol starts above the address.
C14_OffsetIsSignedDifference ==
  \A line \in Lines :
    line.sym # <<>> => line.sym[2] = line.ip - dladdr(line.ip).dli_saddr

\* The trace has a line with a negative offset.
C14_Witness ==
  \E line \in Lines : line.sym # <<>> /\ line.sym[2] = -24

\* C15: a frame line has the symbol and offset exactly when dladdr succeeded
\* and gave both a symbol name and a symbol start, the name being the
\* demangled one when there is one; it has the placeholder "???" exactly
\* when dladdr failed or gave no image name, and the last component of the
\* image name otherwise; index and address are always there.
C15_LineShape ==
  \A line \in Lines :
    LET dli == dladdr(line.ip) IN
    /\ line.idx \in 0..63 /\ line.ip # NULL
    /\ line.sym # <<>> <=>
         (dli.valid /\ dli.dli_sname # NoString /\ dli.dli_saddr # NULL)
    /\ line.sym # <<>> =>
         line.sym[1] = (IF dli.dli_sname = <<"_ZN11CrashLogOSX12MakeCrashLogEv">>
                          THEN "CrashLogOSX::MakeCrashLog()" ELSE dli.dli_sname[1])
    /\ line.fname = <<"???">> <=> (~dli.valid \/ dli.dli_fname = NoString)
    /\ line.fname # <<"???">> => line.fname[1] = dli.dli_fname[Len(dli.dli_fname)]

\* The trace has lines for an address in no image, for one in an image
\* without a symbol there, and for one with a symbol name but no start.
C15_Witness ==
  /\ \E line \in Lines : ~dladdr(line.ip).valid /\ line.sym = <<>>
  /\ \E line \in Lines : line.fname = <<"libSystem.B.dylib">> /\ line.sym = <<>>
                         /\ dladdr(line.ip).dli_sname # NoString
  /\ \E line \in Lines : line.fname = <<"openttd">> /\ line.sym = <<>>

\* Activation f is past the GUI test of the full-report path.
AfterGUITest(f) == f.pc \in {"dialog3", "cleanup", "abort3"}

\* The value the GUI test of activation f had.
ShowsDialog(f) ==
  \E k \in 1..Len(f.calls) :
    f.calls[k].fn = "VideoDriver::GetInstance" /\ f.calls[k].arg = <<"true">>

\* The ShowMacDialog calls of activation f.
Dialogs(f) == SelectSeq(f.calls, LAMBDA c : c.fn = "ShowMacDialog")

\* The message of the crash dialog for activation f: the paths its artifact
\* writers reported, empty for those that failed.
GeneratedFiles(f) ==
  <<"Generated file(s):", PathWritten(f, 1), PathWritten(f, 2), PathWritten(f, 3)>>

\* C16, as claimed: an activation on the full-report path reaches the cleanup
\* call having shown one dialog, which lists the paths written.
C16_AlwaysTold ==
  \A f \in Activations :
    f.pc \in {"cleanup", "abort3"} =>
      Len(Dialogs(f)) = 1 /\ Dialogs(f)[1].arg = GeneratedFiles(f)

\* C16, amended: an activation on the full-report path shows the dialog, once
\* and listing the paths written, when there is no video driver or the
\* driver has a GUI; with a driver without GUI it shows none.
C16_ToldUnlessHeadless ==
  \A f \in Activations :
    /\ f.pc = "dialog3" => ShowsDialog(f) /\ Len(Dialogs(f)) = 0
    /\ f.pc \in {"cleanup", "abort3"} =>
         IF ShowsDialog(f)
           THEN Len(Dialogs(f)) = 1 /\ Dialogs(f)[1].arg = GeneratedFiles(f)
           ELSE Len(Dialogs(f)) = 0

\* The dialog has been shown after the savegame could not be written.
C16_Witness ==
  \E f \in Activations :
    /\ f.pc = "cleanup"
    /\ f.results = <<TRUE, FALSE, TRUE>>
    /\ Len(Dialogs(f)) = 1
    /\ Dialogs(f)[1].arg[3] = "" /\ Dialogs(f)[1].arg[4] # ""

\* The position of the first call of fn among the calls of activation f, 0
\* if there is none.
CallIndex(f, fn) ==
  IF CallCount(f, fn) = 0 THEN 0
  ELSE CHOOSE k \in 1..Len(f.calls) :
         f.calls[k].fn = fn /\ \A j \in 1..(k - 1) : f.calls[j].fn # fn

\* C17: an activation calls AfterCrashLogCleanup not before the three
\* artifact writers and the dialog, if any, and once by the time it calls the
\* final abort(), as its last call; the handler terminates the process only
\* at one of its abort() calls.
C17_CleanupOnceBeforeAbort ==
  /\ [](\A f \in Activations :
          /\ CallCount(f, "AfterCrashLogCleanup") = (IF f.pc = "abort3" THEN 1 ELSE 0)
          /\ f.pc = "abort3" =>
               /\ CallIndex(f, "AfterCrashLogCleanup") = Len(f.calls)
               /\ \A fn \in {"WriteCrashLog", "WriteSavegame", "WriteScreenshot",
                             "VideoDriver::GetInstance"} :
                    CallCount(f, fn) = 1
               /\ ShowsDialog(f) => CallCount(f, "ShowMacDialog") = 1)
  /\ [][proc' = "aborted" =>
          \E t \in Threads :
            stack[t] # <<>> /\ Top(t).pc \in {"abort1", "abort2", "abort3"}]_vars

\* The cleanup hook has been called after the dialog.
C17_Witness ==
  \E f \in Activations :
    /\ f.pc = "abort3"
    /\ CallIndex(f, "ShowMacDialog") = Len(f.calls) - 1
    /\ CallIndex(f, "AfterCrashLogCleanup") = Len(f.calls)

RECURSIVE TraceWidth(_)
\* The number of characters of the given frame lines.
TraceWidth(lines) ==
  IF lines = <<>> THEN 0
  ELSE IndexWidth(Head(lines).idx) + ModuleWidth(Head(lines)) + SymbolWidth(Head(lines))
         + 1 + TraceWidth(Tail(lines))

\* C18: the walk returns for one of three reasons.  The loop condition fails:
\* the starting frame pointer is null and there are no lines, or 64 lines
\* were written.  The return address of the current frame is null: there is
\* a line for each frame before it and none for it.  The link of the current
\* frame is not strictly greater than the frame pointer or not aligned: the
\* last line is that of the current frame.  Until then each line is for a
\* non-null return address and each link followed is strictly greater and
\* aligned.  However it ends, what LogStacktrace has appended is the header,
\* the lines and the closing newline, and nothing for a frame without line.
C18_EarlyExits ==
  /\ \A k \in 1..Len(walk.out) : walk.out[k].ip # NULL
  /\ \A k \in 1..(Len(walk.out) - 1) :
       /\ walk.out[k + 1].frame = Deref(walk.img, walk.out[k].frame, 0)
       /\ walk.out[k + 1].frame > walk.out[k].frame
       /\ walk.out[k + 1].frame % 16 = 0
  /\ walk.pc = "done" =>
       /\ walk.exit \in {"loop condition", "null return address", "broken stack"}
       /\ walk.exit = "loop condition" =>
            \/ walk.img.start = NULL /\ walk.out = <<>>
            \/ Len(walk.out) = 64 /\ walk.i = 64
       /\ walk.exit = "null return address" =>
            /\ Deref(walk.img, walk.frame, 1) = NULL
            /\ Len(walk.out) = walk.i
            /\ \A k \in 1..Len(walk.out) : walk.out[k].frame # walk.frame
       /\ walk.exit = "broken stack" =>
            /\ Len(walk.out) = walk.i + 1
            /\ walk.out[Len(walk.out)].frame = walk.frame
            /\ LET next == Deref(walk.img, walk.frame, 0)
               IN next <= walk.frame \/ next % 16 # 0
       /\ (walk.img.start = NULL) => walk.out = <<>>
       /\ walk.buf.full = walk.img.used + 13 + TraceWidth(walk.out) + 1

\* The walk has ended at the null return address of its fourth frame.
C18_Witness ==
  /\ walk.pc = "done"
  /\ walk.exit = "null return address"
  /\ Len(walk.out) = 3

\* The calls of activation f after the six signal() calls of the restoration
\* loop.
AfterRestoration(f) ==
  IF Len(f.calls) <= 6 THEN <<>> ELSE SubSeq(CallNames(f), 7, Len(f.calls))

\* C19: an activation to which a guard predicate has returned true has not
\* called AfterCrashLogCleanup, and after the restoration loop it has called
\* the first predicate and ShowMacDialog when that one returned true, both
\* predicates and ShowMacDialog when the second one did, and nothing else.
C19_SkipPathCalls ==
  \A f \in Activations :
    Skipped(f) =>
      /\ CallCount(f, "AfterCrashLogCleanup") = 0
      /\ \A k \in 1..6 : f.calls[k].fn = "signal"
      /\ IF f.calls[7].arg = <<"true">>
           THEN /\ CallCount(f, "SaveloadCrashWithMissingNewGRFs") = 0
                /\ AfterRestoration(f) \in
                     {<<"GamelogTestEmergency">>,
                      <<"GamelogTestEmergency", "ShowMacDialog">>}
           ELSE AfterRestoration(f) \in
                  {<<"GamelogTestEmergency", "SaveloadCrashWithMissingNewGRFs">>,
                   <<"GamelogTestEmergency", "SaveloadCrashWithMissingNewGRFs",
                     "ShowMacDialog">>}

\* The first predicate has returned true and the dialog has been shown.
C19_Witness ==
  \E f \in Activations :
    /\ f.pc = "abort1"
    /\ AfterRestoration(f) = <<"GamelogTestEmergency", "ShowMacDialog">>

====
